---- MODULE Spec2Model ----
(***************************************************************************)
(* Model of the Proofly MCP server (server.js): the tool dispatcher and    *)
(* the handlers analyze-image, analyze, check-session-status and           *)
(* get-face-details, with the                                              *)
(* remote analysis service as the environment.  Every await of a handler   *)
(* is a point where the handler is suspended; the action that delivers     *)
(* the awaited response runs the handler up to its next await or its       *)
(* return.                                                                 *)
(***************************************************************************)
EXTENDS Integers, Sequences, FiniteSets, TLC

\* ------------------------------------------------------------------ bounds
\* Number of invocation slots of the server.
NumCalls == 2
\* Number of status responses of a lifecycle whose statuses are logged.
LogLen == 3
\* Longest faces array the remote service returns.
MaxFaces == 2
\* Largest score, in hundredths, a face carries.
MaxScore == 100
\* Number of 'processing' answers the remote service gives to one lifecycle
\* while several lifecycles run at once.
ConcPolls == 1

Procs == 1..NumCalls

\* ------------------------------------------------------- program constants
\* PROOFLY_CONFIG.maxRetries
maxRetries == 60

\* ----------------------------------------------------------------- values
\* JavaScript undefined, for string-valued things (status, uuid, arguments).
Undefined == "undefined"

\* Status strings the remote service may report ("error" stands for any
\* string the handlers do not name; Undefined for a response without status).
RemoteStatuses ==
  {"in progress", "processing", "pending", "in_progress", "done", "completed",
   "no_faces_found", "no faces found", "error", Undefined}

\* Session identifiers the upload endpoint hands out.
Uuids == {"abc", "xyz"}

\* A result variable that holds nothing (let analysisResult; / no result field).
NoPayload == [t |-> "undefined"]

Face(i) == [id |-> i]
FaceList(n) == [i \in 1..n |-> Face(i)]

\* An AnalysisResultPayload of the remote service.
Payload(u, st, hasFaces, n) ==
  [t |-> "payload", uuid |-> u, status |-> st, message |-> "",
   hasFaces |-> hasFaces, faces |-> FaceList(n), total_faces |-> n]

\* Payloads the remote service may embed in a status response or return from
\* GET /api/{uuid}, for session u.
RemotePayloads(u) ==
  {Payload(u, "done", TRUE, n) : n \in 0..MaxFaces} \cup {Payload(u, "done", FALSE, 0)}

\* The two payloads used on the submit paths (with and without faces).
SubmitPayloads(u) == {Payload(u, "done", TRUE, 1), Payload(u, "done", FALSE, 0)}

\* Messages: the text of the innermost error, its interpolated values and the
\* prefixes the catch blocks put in front of it (outermost first).
Msg(text, st, id, idx, total) ==
  [wrap |-> <<>>, text |-> text, status |-> st, id |-> id, index |-> idx, total |-> total]
Wrap(prefix, m) == [m EXCEPT !.wrap = <<prefix>> \o @]

\* Thrown values.
McpError(code, m) == [kind |-> "error", class |-> "McpError", code |-> code, msg |-> m, http |-> "none"]
JsError(m) == [kind |-> "error", class |-> "Error", code |-> "", msg |-> m, http |-> "none"]
\* axios rejects with the HTTP status of the response, "none" without response.
AxiosError(http) ==
  [kind |-> "error", class |-> "AxiosError", code |-> "",
   msg |-> Msg("Request failed", "", "", 0, 0), http |-> http]
HttpFailures == {"404", "500", "none"}

NoOutcome == [kind |-> "none"]
Ok(content) == [kind |-> "ok", content |-> content]

\* --------------------------------------------------------------- variables
VARIABLES
  tool,            \* the tool each invocation runs ("none" when idle)
  pc,              \* where each invocation is suspended
  format,          \* params.format
  params,          \* params.imageBase64, params.filename, params.imageUrl
  uuid,            \* const { uuid } = uploadResponse.data
  status,          \* let status
  attempts,        \* let attempts
  analysisResult,  \* let analysisResult
  sessionUuid,     \* params.sessionUuid
  faceIndex,       \* params.faceIndex
  outcome,         \* what the dispatcher returned or threw to the caller
  net,             \* requests issued and timers set by the invocation
  hist,            \* responses the remote service gave to the invocation
  apiKey,          \* PROOFLY_CONFIG.apiKey
  shutdown,        \* the process: "running", "closing" (in a signal handler), "exited"
  probability,     \* the argument of the getVerdict call in progress
  verdict          \* what that call returned ("none" before it returns)

vars == <<tool, pc, format, params, uuid, status, attempts, analysisResult,
          sessionUuid, faceIndex, outcome, net, hist, apiKey, shutdown, probability, verdict>>

NoNet == [uploads |-> 0, statusQueries |-> 0, fetches |-> 0, sleeps |-> 0,
          downloads |-> 0, ids |-> {}, bytes |-> 0]
\* log: the statuses of the status responses so far, in order, while there are
\* at most LogLen of them (longer: "overflow"); nResp: their number; seen:
\* the set of their statuses; lastStatus, lastResult: the fields of the latest;
\* embedded: the latest result field any of them carried;
\* upload: whether the upload response carried a uuid ("ok") or not ("noid");
\* fetched: the payload GET /api/{uuid} returned; failed: the request that
\* failed; http: the HTTP status a failed session query of check-session-status
\* or get-face-details came back with ("none": no response).
NoHist == [log |-> <<>>, nResp |-> 0, seen |-> {}, lastStatus |-> Undefined,
           lastResult |-> NoPayload, embedded |-> NoPayload,
           fetched |-> NoPayload, failed |-> "no", http |-> "none",
           upload |-> "none"]
\* An imageBase64 argument: typeof t, and for a string the text up to and
\* with its first comma when it starts with data:image (prefix) and the rest.
NoImage == [t |-> "undefined", prefix |-> "", body |-> ""]
NoParams == [imageBase64 |-> NoImage, filename |-> Undefined, imageUrl |-> Undefined]
\* A score (face.ansamble): typeof t ("object" for null), and for a number its
\* value v in hundredths.
NoScore == [t |-> "undefined", v |-> 0]
\* A faceIndex argument: typeof t, and for a number its value v (+ 1/2 if frac).
NoIndex == [t |-> "undefined", v |-> 0, frac |-> FALSE]

Init ==
  /\ tool = [p \in Procs |-> "none"]
  /\ pc = [p \in Procs |-> "idle"]
  /\ format = [p \in Procs |-> "text"]
  /\ params = [p \in Procs |-> NoParams]
  /\ uuid = [p \in Procs |-> Undefined]
  /\ status = [p \in Procs |-> Undefined]
  /\ attempts = [p \in Procs |-> 0]
  /\ analysisResult = [p \in Procs |-> NoPayload]
  /\ sessionUuid = [p \in Procs |-> Undefined]
  /\ faceIndex = [p \in Procs |-> NoIndex]
  /\ outcome = [p \in Procs |-> NoOutcome]
  /\ net = [p \in Procs |-> NoNet]
  /\ hist = [p \in Procs |-> NoHist]
  /\ apiKey = Undefined
  /\ shutdown = "running"
  /\ probability = NoScore
  /\ verdict = "none"

\* The client of this model sends one request at a time.
Quiescent == \A q \in Procs : pc[q] = "idle"
\* A new invocation takes the first free slot (the slots are interchangeable).
FirstFree(p) == \A q \in 1..(p - 1) : pc[q] # "idle"


\* The invocation returns or throws to the caller.
Finish(p, out) ==
  /\ pc' = [pc EXCEPT ![p] = "returned"]
  /\ outcome' = [outcome EXCEPT ![p] = out]

\* hist after a status response with status st and result field r.
Logged(h, st, r) ==
  [h EXCEPT !.log = IF h.nResp < LogLen /\ h.log # <<"overflow">>
                      THEN Append(h.log, st) ELSE <<"overflow">>,
            !.nResp = @ + 1, !.seen = @ \cup {st}, !.lastStatus = st, !.lastResult = r,
            !.embedded = IF r # NoPayload THEN r ELSE @]

\* ------------------------------------------------------ CallTool dispatcher
\* catch (error) of the CallToolRequestSchema handler.
CallToolCatch(name, error) ==
  IF error.class = "McpError" THEN error
  ELSE McpError("INTERNAL_ERROR", Wrap("Failed to execute tool ", Wrap(name, error.msg)))

\* -------------------------------------------------------------- getVerdict
\* The literals 0.8 and 0.2 of getVerdict, in hundredths.
RealAbove == 80
FakeBelow == 20

\* The values of face.ansamble: absent, null, or a number.
Scores ==
  {NoScore, [t |-> "object", v |-> 0]}
    \cup {[t |-> "number", v |-> n] : n \in 0..MaxScore}

\* Variant: the comparisons include the thresholds.
getVerdict_Inclusive(p) ==
  IF p.t = "object" \/ p.t = "undefined" THEN "Uncertain (no score)"
  ELSE IF p.v >= RealAbove THEN "Likely Real"
  ELSE IF p.v <= FakeBelow THEN "Likely Fake"
  ELSE "Uncertain"

\* function getVerdict(probability)
getVerdict(p) ==
  IF p.t = "object" \/ p.t = "undefined" THEN "Uncertain (no score)"
  ELSE IF p.v > RealAbove THEN "Likely Real"
  ELSE IF p.v < FakeBelow THEN "Likely Fake"
  ELSE "Uncertain"

\* const faceVerdict = getVerdict(face.ansamble): the call returns.
ReturnVerdict ==
  /\ verdict = "none"
  /\ verdict' = getVerdict(probability)
  /\ UNCHANGED <<tool, pc, format, params, uuid, status, attempts, analysisResult,
                 sessionUuid, faceIndex, outcome, net, hist, apiKey, shutdown, probability>>

\* result.faces.forEach: getVerdict is called for the next face.
CallVerdict ==
  /\ verdict # "none"
  /\ probability' \in Scores
  /\ verdict' = "none"
  /\ UNCHANGED <<tool, pc, format, params, uuid, status, attempts, analysisResult,
                 sessionUuid, faceIndex, outcome, net, hist, apiKey, shutdown>>

\* -------------------------------------------------------------- formatting
\* formatResultsToHumanReadable(result): the lines it writes.
formatResultsToHumanReadable(result) ==
  IF result = NoPayload THEN [error |-> "Error: No result to format."]
  ELSE
    [uuid |-> result.uuid,
     status |-> IF result.status = "" THEN "N/A" ELSE result.status,
     section |->
       IF result.message # "" /\ result.status \in {"no_faces_found", "no faces found"}
         THEN "message"
       ELSE IF result.hasFaces /\ Len(result.faces) > 0 THEN "faces"
       ELSE IF result.status \in {"done", "completed"} THEN "no faces detected"
       ELSE IF result.message = "" THEN "no specific face data"
       ELSE "none",
     message |-> result.message,
     faces |-> IF result.hasFaces THEN result.faces ELSE <<>>]

\* ------------------------------------------------- handleAnalyzeImage
\* An imageBase64 argument: a string made of a prefix and a base64 body.
ImageArgs ==
  {NoImage,
   [t |-> "string", prefix |-> "", body |-> ""],
   [t |-> "string", prefix |-> "", body |-> "QUJD"],
   [t |-> "string", prefix |-> "data:image/png;base64,", body |-> "QUJD"],
   [t |-> "string", prefix |-> "data:image/png;base64,", body |-> ""],
   [t |-> "string", prefix |-> "data:image/png", body |-> ""]}
FilenameArgs == {Undefined, "a.png"}
Formats == {"text", "json"}

\* !imageBase64 || !filename
MissingImageParams(imageBase64, filename) ==
  \/ imageBase64.t = "undefined"
  \/ (imageBase64.prefix = "" /\ imageBase64.body = "")
  \/ filename = Undefined

\* let actualImageBase64 = imageBase64;
\* if (imageBase64.startsWith('data:image')) { actualImageBase64 = imageBase64.split(',')[1]; }
\* The text after the first comma, undefined when the argument has no comma.
StripDataUri(imageBase64) ==
  IF imageBase64.prefix # "" THEN
    IF imageBase64.prefix = "data:image/png;base64,"
      THEN [t |-> "string", text |-> imageBase64.body]
      ELSE [t |-> "undefined", text |-> ""]
  ELSE [t |-> "string", text |-> imageBase64.body]

\* Buffer.from(text, 'base64'): the number of bytes of the buffer.
BufferFromBase64(text) == IF text = "QUJD" THEN 3 ELSE 0

\* Variant: the loop condition without 'pending'.
KeepPollingImage_NoPending(st) == st \in {"in progress", "processing"}

\* while (status === 'in progress' || status === 'processing' || status === 'pending')
KeepPollingImage(st) == st \in {"in progress", "processing", "pending"}

\* Variant: the bound tested with > (one attempt too many).
RetriesExhaustedImage_OffByOne(att) == att > maxRetries

\* if (attempts >= PROOFLY_CONFIG.maxRetries)
RetriesExhaustedImage(att) == att >= maxRetries

\* The result object built for the no-faces statuses.
NoFacesResultImage(u) ==
  [t |-> "payload", uuid |-> u, status |-> "no_faces_found",
   message |-> "No faces detected in the image.",
   hasFaces |-> TRUE, faces |-> <<>>, total_faces |-> 0]

\* Variant: only the spelling no_faces_found gets the no-faces result.
NormalizeImage_OneSpelling(st, res, u) ==
  IF st # "done" /\ st # "completed" /\ res = NoPayload THEN
    IF st = "no_faces_found"
      THEN [kind |-> "ok", result |-> NoFacesResultImage(u)]
      ELSE JsError(Msg("Analysis did not complete successfully. Last status: ", st, "", 0, 0))
  ELSE [kind |-> "ok", result |-> res]

\* if (status !== 'done' && status !== 'completed' && !analysisResult) {...}:
\* the value of analysisResult after it, or the Error it throws.
NormalizeImage(st, res, u) ==
  IF st # "done" /\ st # "completed" /\ res = NoPayload THEN
    IF st = "no_faces_found" \/ st = "no faces found"
      THEN [kind |-> "ok", result |-> NoFacesResultImage(u)]
      ELSE JsError(Msg("Analysis did not complete successfully. Last status: ", st, "", 0, 0))
  ELSE [kind |-> "ok", result |-> res]

\* Variant: the result field of a status response is never captured.
CaptureImage_Never(result, res) == res

\* if (statusResp.data.result) { analysisResult = statusResp.data.result; }
CaptureImage(result, res) == IF result # NoPayload THEN result ELSE res

\* Variant: the final result is always fetched.
NeedsFetchImage_Always(res) == TRUE

\* if (!analysisResult): the final result has to be fetched.
NeedsFetchImage(res) == res = NoPayload

\* if (format === 'json') ... else ...
RenderImage(fmt, res) ==
  IF fmt = "json" THEN [fmt |-> "json", body |-> res]
  ELSE [fmt |-> "text", body |-> formatResultsToHumanReadable(res)]

\* catch (error) of handleAnalyzeImage.
CatchAnalyzeImage(error) ==
  McpError("ServerError", Wrap("Failed to analyze image: ", error.msg))

\* Variant: the error is swallowed and the handler waits to try again.
ThrowImage_Swallow(p, error) ==
  /\ pc' = [pc EXCEPT ![p] = "sleep"]
  /\ outcome' = outcome

ThrowImage(p, error) == Finish(p, CallToolCatch("analyze-image", CatchAnalyzeImage(error)))

\* The handler from the test of the while loop to its next await or its end,
\* with status st, attempts att, analysisResult res and session id u.
ResumeAnalyzeImage(p, st, att, res, u) ==
  IF KeepPollingImage(st) THEN
    IF RetriesExhaustedImage(att) THEN
      /\ ThrowImage(p, JsError(Msg("Maximum retry attempts reached for status check.", "", "", 0, 0)))
      /\ analysisResult' = [analysisResult EXCEPT ![p] = res]
      /\ net' = net
    ELSE
      /\ pc' = [pc EXCEPT ![p] = "sleep"]
      /\ net' = [net EXCEPT ![p].sleeps = @ + 1]
      /\ analysisResult' = [analysisResult EXCEPT ![p] = res]
      /\ outcome' = outcome
  ELSE
    LET n == NormalizeImage(st, res, u) IN
    IF n.kind = "error" THEN
      /\ ThrowImage(p, n)
      /\ analysisResult' = [analysisResult EXCEPT ![p] = res]
      /\ net' = net
    ELSE IF NeedsFetchImage(n.result) THEN
      /\ pc' = [pc EXCEPT ![p] = "awaitResult"]
      /\ net' = [net EXCEPT ![p].fetches = @ + 1, ![p].ids = @ \cup {u}]
      /\ analysisResult' = [analysisResult EXCEPT ![p] = n.result]
      /\ outcome' = outcome
    ELSE
      /\ Finish(p, Ok(RenderImage(format[p], n.result)))
      /\ analysisResult' = [analysisResult EXCEPT ![p] = n.result]
      /\ net' = net

\* handleAnalyzeImage(params) up to the upload request.
CallAnalyzeImage(p) ==
  \E imageBase64 \in ImageArgs, filename \in FilenameArgs, fmt \in Formats :
    /\ pc[p] = "idle"
    /\ tool' = [tool EXCEPT ![p] = "analyze-image"]
    /\ format' = [format EXCEPT ![p] = fmt]
    /\ params' = [params EXCEPT ![p] =
                    [NoParams EXCEPT !.imageBase64 = imageBase64, !.filename = filename]]
    /\ IF MissingImageParams(imageBase64, filename) THEN
         /\ Finish(p, CallToolCatch("analyze-image",
              McpError("InvalidParams", Msg("Missing imageBase64 or filename parameter", "", "", 0, 0))))
         /\ net' = net
       ELSE
         LET actualImageBase64 == StripDataUri(imageBase64) IN
         IF actualImageBase64.t = "undefined" THEN
           /\ ThrowImage(p, JsError(Msg("The first argument must be of type string", "", "", 0, 0)))
           /\ net' = net
         ELSE
           /\ pc' = [pc EXCEPT ![p] = "awaitUpload"]
           /\ net' = [net EXCEPT ![p].uploads = @ + 1,
                                 ![p].bytes = BufferFromBase64(actualImageBase64.text)]
           /\ outcome' = outcome
    /\ UNCHANGED <<apiKey, shutdown, probability, verdict, uuid, status, attempts, analysisResult, sessionUuid, faceIndex, hist>>

\* Variant: a response without uuid is not told apart.
MissingUuidImage_Never(u) == FALSE

\* if (!uuid)
MissingUuidImage(u) == u = Undefined

\* The answer to POST /api/upload, then the handler up to the first sleep.
UploadResponseImage(p) ==
  /\ pc[p] = "awaitUpload" /\ tool[p] = "analyze-image"
  /\ \/ \E http \in HttpFailures :
          /\ ThrowImage(p, AxiosError(http))
          /\ hist' = [hist EXCEPT ![p].failed = "upload"]
          /\ UNCHANGED <<uuid, status, attempts, analysisResult, net>>
     \/ \E u \in Uuids \cup {Undefined} :
          /\ hist' = [hist EXCEPT ![p].upload = IF u = Undefined THEN "noid" ELSE "ok"]
          /\ IF MissingUuidImage(u) THEN
               /\ ThrowImage(p, JsError(Msg("No session UUID returned from Proofly API after upload", "", "", 0, 0)))
               /\ UNCHANGED <<uuid, status, attempts, analysisResult, net>>
             ELSE
               /\ uuid' = [uuid EXCEPT ![p] = u]
               /\ status' = [status EXCEPT ![p] = "in progress"]
               /\ attempts' = [attempts EXCEPT ![p] = 0]
               /\ ResumeAnalyzeImage(p, "in progress", 0, NoPayload, u)
  /\ UNCHANGED <<apiKey, shutdown, probability, verdict, tool, format, params, sessionUuid, faceIndex>>

\* Variant: the promise of the sleep is never resolved.
WakeImage_NeverResolves(p) ==
  /\ pc[p] = "sleep" /\ tool[p] = "analyze-image"
  /\ FALSE
  /\ UNCHANGED vars

\* Variant: attempts is one counter shared by all invocations.
WakeImage_SharedAttempts(p) ==
  /\ pc[p] = "sleep" /\ tool[p] = "analyze-image"
  /\ attempts' = [q \in Procs |-> attempts[q] + 1]
  /\ net' = [net EXCEPT ![p].statusQueries = @ + 1, ![p].ids = @ \cup {uuid[p]}]
  /\ pc' = [pc EXCEPT ![p] = "awaitStatus"]
  /\ UNCHANGED <<apiKey, shutdown, probability, verdict, tool, format, params, uuid, status, analysisResult, sessionUuid, faceIndex, outcome, hist>>

\* The retry interval has passed: attempts++ and GET /api/{uuid}/status.
WakeImage(p) ==
  /\ pc[p] = "sleep" /\ tool[p] = "analyze-image"
  /\ attempts' = [attempts EXCEPT ![p] = @ + 1]
  /\ net' = [net EXCEPT ![p].statusQueries = @ + 1, ![p].ids = @ \cup {uuid[p]}]
  /\ pc' = [pc EXCEPT ![p] = "awaitStatus"]
  /\ UNCHANGED <<apiKey, shutdown, probability, verdict, tool, format, params, uuid, status, analysisResult, sessionUuid, faceIndex, outcome, hist>>

\* The answer to GET /api/{uuid}/status, then the rest of the loop body and
\* the handler up to its next await or its end.
StatusResponseImage(p) ==
  /\ pc[p] = "awaitStatus" /\ tool[p] = "analyze-image"
  /\ \/ \E http \in HttpFailures :
          /\ ThrowImage(p, AxiosError(http))
          /\ hist' = [hist EXCEPT ![p].failed = "status"]
          /\ UNCHANGED <<status, analysisResult, net>>
     \/ \E st \in RemoteStatuses, r \in {NoPayload} \cup SubmitPayloads(uuid[p]) :
          /\ status' = [status EXCEPT ![p] = st]
          /\ hist' = [hist EXCEPT ![p] = Logged(@, st, r)]
          /\ ResumeAnalyzeImage(p, st, attempts[p], CaptureImage(r, analysisResult[p]), uuid[p])
  /\ UNCHANGED <<apiKey, shutdown, probability, verdict, tool, format, params, uuid, attempts, sessionUuid, faceIndex>>

\* The answer to GET /api/{uuid}, then the handler to its end.
ResultResponseImage(p) ==
  /\ pc[p] = "awaitResult" /\ tool[p] = "analyze-image"
  /\ \/ \E http \in HttpFailures :
          /\ ThrowImage(p, AxiosError(http))
          /\ hist' = [hist EXCEPT ![p].failed = "result"]
          /\ UNCHANGED analysisResult
     \/ \E r \in SubmitPayloads(uuid[p]) :
          /\ analysisResult' = [analysisResult EXCEPT ![p] = r]
          /\ hist' = [hist EXCEPT ![p].fetched = r]
          /\ Finish(p, Ok(RenderImage(format[p], r)))
  /\ UNCHANGED <<apiKey, shutdown, probability, verdict, tool, format, params, uuid, status, attempts, sessionUuid, faceIndex, net>>

\* ------------------------------------------------- handleAnalyzeImageUrl
UrlArgs == {Undefined, "https://host/pic.jpg"}

\* Variant: the loop runs until a status the handler names as final.
KeepPollingUrl_UntilNamed(st) ==
  st \notin {"done", "completed", "no_faces_found", "no faces found"}

\* while (status === 'in progress' || status === 'processing' || status === 'pending')
KeepPollingUrl(st) == st \in {"in progress", "processing", "pending"}

\* Variant: the by-URL loop allows one more attempt.
RetriesExhaustedUrl_Late(att) == att > maxRetries

\* if (attempts >= PROOFLY_CONFIG.maxRetries)
RetriesExhaustedUrl(att) == att >= maxRetries

\* The result object built for the no-faces statuses.
NoFacesResultUrl(u) ==
  [t |-> "payload", uuid |-> u, status |-> "no_faces_found",
   message |-> "No faces detected in the image.",
   hasFaces |-> TRUE, faces |-> <<>>, total_faces |-> 0]

\* Variant: no special case for the no-faces statuses.
NormalizeUrl_NoNoFaces(st, res, u) ==
  IF st # "done" /\ st # "completed" /\ res = NoPayload
    THEN JsError(Msg("Analysis did not complete successfully. Last status: ", st, "", 0, 0))
    ELSE [kind |-> "ok", result |-> res]

\* Variant: any other final status gets an empty result instead of an Error.
NormalizeUrl_SilentEmpty(st, res, u) ==
  IF st # "done" /\ st # "completed" /\ res = NoPayload
    THEN [kind |-> "ok", result |-> NoFacesResultUrl(u)]
    ELSE [kind |-> "ok", result |-> res]

\* if (status !== 'done' && status !== 'completed' && !analysisResult) {...}:
\* the value of analysisResult after it, or the Error it throws.
NormalizeUrl(st, res, u) ==
  IF st # "done" /\ st # "completed" /\ res = NoPayload THEN
    IF st = "no_faces_found" \/ st = "no faces found"
      THEN [kind |-> "ok", result |-> NoFacesResultUrl(u)]
      ELSE JsError(Msg("Analysis did not complete successfully. Last status: ", st, "", 0, 0))
  ELSE [kind |-> "ok", result |-> res]

\* Variant: the first captured result is kept, later ones are dropped.
CaptureUrl_KeepFirst(result, res) == IF res # NoPayload THEN res ELSE result

\* Variant: a response without result clears what was captured.
CaptureUrl_Overwrite(result, res) == result

\* if (statusResp.data.result) { analysisResult = statusResp.data.result; }
CaptureUrl(result, res) == IF result # NoPayload THEN result ELSE res

\* Variant: the final result is always fetched on the by-URL path.
NeedsFetchUrl_Always(res) == TRUE

\* if (!analysisResult): the final result has to be fetched.
NeedsFetchUrl(res) == res = NoPayload

\* if (format === 'json') ... else ...
RenderUrl(fmt, res) ==
  IF fmt = "json" THEN [fmt |-> "json", body |-> res]
  ELSE [fmt |-> "text", body |-> formatResultsToHumanReadable(res)]

\* catch (error) of handleAnalyzeImageUrl.
CatchAnalyzeImageUrl(error) ==
  McpError("ServerError", Wrap("Failed to analyze image URL: ", error.msg))

ThrowUrl(p, error) == Finish(p, CallToolCatch("analyze", CatchAnalyzeImageUrl(error)))

\* Variant: a captured result ends the loop whatever the status.
ResumeAnalyzeImageUrl_StopOnResult(p, st, att, res, u) ==
  IF KeepPollingUrl(st) /\ res = NoPayload THEN
    IF RetriesExhaustedUrl(att) THEN
      /\ ThrowUrl(p, JsError(Msg("Maximum retry attempts reached for status check.", "", "", 0, 0)))
      /\ analysisResult' = [analysisResult EXCEPT ![p] = res]
      /\ net' = net
    ELSE
      /\ pc' = [pc EXCEPT ![p] = "sleep"]
      /\ net' = [net EXCEPT ![p].sleeps = @ + 1]
      /\ analysisResult' = [analysisResult EXCEPT ![p] = res]
      /\ outcome' = outcome
  ELSE
    LET n == NormalizeUrl(st, res, u) IN
    IF n.kind = "error" THEN
      /\ ThrowUrl(p, n)
      /\ analysisResult' = [analysisResult EXCEPT ![p] = res]
      /\ net' = net
    ELSE IF NeedsFetchUrl(n.result) THEN
      /\ pc' = [pc EXCEPT ![p] = "awaitResult"]
      /\ net' = [net EXCEPT ![p].fetches = @ + 1, ![p].ids = @ \cup {u}]
      /\ analysisResult' = [analysisResult EXCEPT ![p] = n.result]
      /\ outcome' = outcome
    ELSE
      /\ Finish(p, Ok(RenderUrl(format[p], n.result)))
      /\ analysisResult' = [analysisResult EXCEPT ![p] = n.result]
      /\ net' = net

\* The handler from the test of the while loop to its next await or its end,
\* with status st, attempts att, analysisResult res and session id u.
ResumeAnalyzeImageUrl(p, st, att, res, u) ==
  IF KeepPollingUrl(st) THEN
    IF RetriesExhaustedUrl(att) THEN
      /\ ThrowUrl(p, JsError(Msg("Maximum retry attempts reached for status check.", "", "", 0, 0)))
      /\ analysisResult' = [analysisResult EXCEPT ![p] = res]
      /\ net' = net
    ELSE
      /\ pc' = [pc EXCEPT ![p] = "sleep"]
      /\ net' = [net EXCEPT ![p].sleeps = @ + 1]
      /\ analysisResult' = [analysisResult EXCEPT ![p] = res]
      /\ outcome' = outcome
  ELSE
    LET n == NormalizeUrl(st, res, u) IN
    IF n.kind = "error" THEN
      /\ ThrowUrl(p, n)
      /\ analysisResult' = [analysisResult EXCEPT ![p] = res]
      /\ net' = net
    ELSE IF NeedsFetchUrl(n.result) THEN
      /\ pc' = [pc EXCEPT ![p] = "awaitResult"]
      /\ net' = [net EXCEPT ![p].fetches = @ + 1, ![p].ids = @ \cup {u}]
      /\ analysisResult' = [analysisResult EXCEPT ![p] = n.result]
      /\ outcome' = outcome
    ELSE
      /\ Finish(p, Ok(RenderUrl(format[p], n.result)))
      /\ analysisResult' = [analysisResult EXCEPT ![p] = n.result]
      /\ net' = net

\* handleAnalyzeImageUrl(params) up to the download request.
CallAnalyzeImageUrl(p) ==
  \E imageUrl \in UrlArgs, fmt \in Formats :
    /\ pc[p] = "idle"
    /\ tool' = [tool EXCEPT ![p] = "analyze"]
    /\ format' = [format EXCEPT ![p] = fmt]
    /\ params' = [params EXCEPT ![p] = [NoParams EXCEPT !.imageUrl = imageUrl]]
    /\ IF imageUrl = Undefined THEN
         /\ Finish(p, CallToolCatch("analyze",
              McpError("InvalidParams", Msg("Missing imageUrl parameter", "", "", 0, 0))))
         /\ net' = net
       ELSE
         /\ pc' = [pc EXCEPT ![p] = "awaitDownload"]
         /\ net' = [net EXCEPT ![p].downloads = @ + 1]
         /\ outcome' = outcome
    /\ UNCHANGED <<apiKey, shutdown, probability, verdict, uuid, status, attempts, analysisResult, sessionUuid, faceIndex, hist>>

\* The answer to GET imageUrl, then the handler up to the upload request.
DownloadResponseUrl(p) ==
  /\ pc[p] = "awaitDownload" /\ tool[p] = "analyze"
  /\ \/ \E http \in HttpFailures :
          /\ ThrowUrl(p, AxiosError(http))
          /\ hist' = [hist EXCEPT ![p].failed = "download"]
          /\ net' = net
     \/ /\ pc' = [pc EXCEPT ![p] = "awaitUpload"]
        /\ net' = [net EXCEPT ![p].uploads = @ + 1]
        /\ UNCHANGED <<outcome, hist>>
  /\ UNCHANGED <<apiKey, shutdown, probability, verdict, tool, format, params, uuid, status, attempts, analysisResult, sessionUuid, faceIndex>>

\* Variant: a response without uuid is not told apart.
MissingUuidUrl_Never(u) == FALSE

\* if (!uuid)
MissingUuidUrl(u) == u = Undefined

\* The answer to POST /api/upload, then the handler up to the first sleep.
UploadResponseUrl(p) ==
  /\ pc[p] = "awaitUpload" /\ tool[p] = "analyze"
  /\ \/ \E http \in HttpFailures :
          /\ ThrowUrl(p, AxiosError(http))
          /\ hist' = [hist EXCEPT ![p].failed = "upload"]
          /\ UNCHANGED <<uuid, status, attempts, analysisResult, net>>
     \/ \E u \in Uuids \cup {Undefined} :
          /\ hist' = [hist EXCEPT ![p].upload = IF u = Undefined THEN "noid" ELSE "ok"]
          /\ IF MissingUuidUrl(u) THEN
               /\ ThrowUrl(p, JsError(Msg("No session UUID returned from Proofly API after upload", "", "", 0, 0)))
               /\ UNCHANGED <<uuid, status, attempts, analysisResult, net>>
             ELSE
               /\ uuid' = [uuid EXCEPT ![p] = u]
               /\ status' = [status EXCEPT ![p] = "in progress"]
               /\ attempts' = [attempts EXCEPT ![p] = 0]
               /\ ResumeAnalyzeImageUrl(p, "in progress", 0, NoPayload, u)
  /\ UNCHANGED <<apiKey, shutdown, probability, verdict, tool, format, params, sessionUuid, faceIndex>>

\* Variant: the status query goes to a session id kept from elsewhere.
WakeUrl_FixedId(p) ==
  /\ pc[p] = "sleep" /\ tool[p] = "analyze"
  /\ attempts' = [attempts EXCEPT ![p] = @ + 1]
  /\ net' = [net EXCEPT ![p].statusQueries = @ + 1, ![p].ids = @ \cup {"abc"}]
  /\ pc' = [pc EXCEPT ![p] = "awaitStatus"]
  /\ UNCHANGED <<apiKey, shutdown, probability, verdict, tool, format, params, uuid, status, analysisResult, sessionUuid, faceIndex, outcome, hist>>

\* The retry interval has passed: attempts++ and GET /api/{uuid}/status.
WakeUrl(p) ==
  /\ pc[p] = "sleep" /\ tool[p] = "analyze"
  /\ attempts' = [attempts EXCEPT ![p] = @ + 1]
  /\ net' = [net EXCEPT ![p].statusQueries = @ + 1, ![p].ids = @ \cup {uuid[p]}]
  /\ pc' = [pc EXCEPT ![p] = "awaitStatus"]
  /\ UNCHANGED <<apiKey, shutdown, probability, verdict, tool, format, params, uuid, status, analysisResult, sessionUuid, faceIndex, outcome, hist>>

\* The answer to GET /api/{uuid}/status, then the rest of the loop body and
\* the handler up to its next await or its end.
StatusResponseUrl(p) ==
  /\ pc[p] = "awaitStatus" /\ tool[p] = "analyze"
  /\ \/ \E http \in HttpFailures :
          /\ ThrowUrl(p, AxiosError(http))
          /\ hist' = [hist EXCEPT ![p].failed = "status"]
          /\ UNCHANGED <<status, analysisResult, net>>
     \/ \E st \in RemoteStatuses, r \in {NoPayload} \cup SubmitPayloads(uuid[p]) :
          /\ status' = [status EXCEPT ![p] = st]
          /\ hist' = [hist EXCEPT ![p] = Logged(@, st, r)]
          /\ ResumeAnalyzeImageUrl(p, st, attempts[p], CaptureUrl(r, analysisResult[p]), uuid[p])
  /\ UNCHANGED <<apiKey, shutdown, probability, verdict, tool, format, params, uuid, attempts, sessionUuid, faceIndex>>

\* The answer to GET /api/{uuid}, then the handler to its end.
ResultResponseUrl(p) ==
  /\ pc[p] = "awaitResult" /\ tool[p] = "analyze"
  /\ \/ \E http \in HttpFailures :
          /\ ThrowUrl(p, AxiosError(http))
          /\ hist' = [hist EXCEPT ![p].failed = "result"]
          /\ UNCHANGED analysisResult
     \/ \E r \in SubmitPayloads(uuid[p]) :
          /\ analysisResult' = [analysisResult EXCEPT ![p] = r]
          /\ hist' = [hist EXCEPT ![p].fetched = r]
          /\ Finish(p, Ok(RenderUrl(format[p], r)))
  /\ UNCHANGED <<apiKey, shutdown, probability, verdict, tool, format, params, uuid, status, attempts, sessionUuid, faceIndex, net>>

\* ------------------------------------------------- handleGetFaceDetails
SessionArgs == {Undefined, "abc"}
FaceIndexArgs ==
  {NoIndex, [t |-> "string", v |-> 0, frac |-> FALSE]}
    \cup {[t |-> "number", v |-> v, frac |-> f] : v \in (-1)..(MaxFaces + 1), f \in BOOLEAN}

\* !sessionUuid || typeof faceIndex !== 'number' || faceIndex < 0
InvalidFaceParams(sid, idx) == sid = Undefined \/ idx.t # "number" \/ idx.v < 0

\* !analysisResult.faces || faceIndex >= analysisResult.faces.length
FaceMissing(result, idx) == ~result.hasFaces \/ idx.v >= Len(result.faces)

\* Variant: the first face whatever the index.
SpecificFace_First(result, idx) ==
  IF ~idx.frac /\ idx.v >= 0 /\ idx.v < Len(result.faces)
    THEN result.faces[1] ELSE NoPayload

\* analysisResult.faces[faceIndex]
SpecificFace(result, idx) ==
  IF ~idx.frac /\ idx.v >= 0 /\ idx.v < Len(result.faces)
    THEN result.faces[idx.v + 1] ELSE NoPayload

\* catch (error) of handleGetFaceDetails.
CatchGetFaceDetails(error, sid) ==
  IF error.http = "404"
    THEN McpError("NotFound",
           Msg("Session with UUID not found when fetching face details.", "", sid, 0, 0))
    ELSE McpError("ServerError", Wrap("Failed to get face details: ", error.msg))

ThrowFace(p, error) ==
  Finish(p, CallToolCatch("get-face-details", CatchGetFaceDetails(error, sessionUuid[p])))

\* handleGetFaceDetails(params) up to the request for the full result.
CallGetFaceDetails(p) ==
  \E sid \in SessionArgs, idx \in FaceIndexArgs, fmt \in Formats :
    /\ pc[p] = "idle"
    /\ tool' = [tool EXCEPT ![p] = "get-face-details"]
    /\ format' = [format EXCEPT ![p] = fmt]
    /\ params' = params
    /\ sessionUuid' = [sessionUuid EXCEPT ![p] = sid]
    /\ faceIndex' = [faceIndex EXCEPT ![p] = idx]
    /\ IF InvalidFaceParams(sid, idx) THEN
         /\ Finish(p, CallToolCatch("get-face-details",
              McpError("InvalidParams",
                Msg("Missing or invalid sessionUuid or faceIndex parameter", "", "", 0, 0))))
         /\ net' = net
       ELSE
         /\ pc' = [pc EXCEPT ![p] = "awaitFaces"]
         /\ net' = [net EXCEPT ![p].fetches = @ + 1, ![p].ids = @ \cup {sid}]
         /\ outcome' = outcome
    /\ UNCHANGED <<apiKey, shutdown, probability, verdict, uuid, status, attempts, analysisResult, hist>>

\* The try block of handleGetFaceDetails after the response r: what it returns,
\* or the error it throws (reading a field of an undefined specificFace is a
\* TypeError).
FaceDetails(fmt, r, idx, sid) ==
  IF FaceMissing(r, idx) THEN
    McpError("NotFound",
      Msg("Face with index not found in session", "", sid,
          idx.v, IF r.hasFaces THEN Len(r.faces) ELSE 0))
  ELSE LET specificFace == SpecificFace(r, idx) IN
    IF fmt = "json" THEN
      Ok([fmt |-> "json", body |-> specificFace])
    ELSE IF specificFace = NoPayload THEN
      JsError(Msg("Cannot read properties of undefined", "", "", 0, 0))
    ELSE
      Ok([fmt |-> "text", number |-> idx.v + 1, session |-> sid, body |-> specificFace])

\* The answer to GET /api/{sessionUuid}, then the handler to its end.
FaceDetailsResponse(p) ==
  /\ pc[p] = "awaitFaces" /\ tool[p] = "get-face-details"
  /\ \/ \E http \in HttpFailures :
          /\ ThrowFace(p, AxiosError(http))
          /\ hist' = [hist EXCEPT ![p].failed = "result", ![p].http = http]
          /\ UNCHANGED analysisResult
     \/ \E r \in RemotePayloads(sessionUuid[p]) :
          /\ analysisResult' = [analysisResult EXCEPT ![p] = r]
          /\ hist' = [hist EXCEPT ![p].fetched = r]
          /\ LET done == FaceDetails(format[p], r, faceIndex[p], sessionUuid[p]) IN
               IF done.kind = "error" THEN ThrowFace(p, done) ELSE Finish(p, done)
  /\ UNCHANGED <<apiKey, shutdown, probability, verdict, tool, format, params, uuid, status, attempts, sessionUuid, faceIndex, net>>

\* ------------------------------------------------- handleCheckSessionStatus
\* if (format === 'json') ... else ...: what the handler returns for the
\* status response with status st and result field r.
RenderSessionStatus(fmt, st, r, sid) ==
  IF fmt = "json" THEN [fmt |-> "json", body |-> [status |-> st, result |-> r]]
  ELSE [fmt |-> "text",
        body |-> [session |-> sid,
                  status |-> IF st = Undefined THEN "N/A" ELSE st,
                  resultAvailable |-> r # NoPayload]]

\* Variant: every failed request is reported as a server error.
CatchCheckSessionStatus_No404(error, sid) ==
  McpError("ServerError", Wrap("Failed to check session status: ", error.msg))

\* catch (error) of handleCheckSessionStatus.
CatchCheckSessionStatus(error, sid) ==
  IF error.http = "404"
    THEN McpError("NotFound", Msg("Session with UUID not found.", "", sid, 0, 0))
    ELSE McpError("ServerError", Wrap("Failed to check session status: ", error.msg))

\* handleCheckSessionStatus(params) up to the status request.
CallCheckSessionStatus(p) ==
  \E sid \in SessionArgs, fmt \in Formats :
    /\ pc[p] = "idle"
    /\ tool' = [tool EXCEPT ![p] = "check-session-status"]
    /\ format' = [format EXCEPT ![p] = fmt]
    /\ params' = params
    /\ sessionUuid' = [sessionUuid EXCEPT ![p] = sid]
    /\ IF sid = Undefined THEN
         /\ Finish(p, CallToolCatch("check-session-status",
              McpError("InvalidParams", Msg("Missing sessionUuid parameter", "", "", 0, 0))))
         /\ net' = net
       ELSE
         /\ pc' = [pc EXCEPT ![p] = "awaitSessionStatus"]
         /\ net' = [net EXCEPT ![p].statusQueries = @ + 1, ![p].ids = @ \cup {sid}]
         /\ outcome' = outcome
    /\ UNCHANGED <<apiKey, shutdown, probability, verdict, uuid, status, attempts, analysisResult, faceIndex, hist>>

\* Variant: the handler queries again while the session is still being processed.
SessionStatusResponse_Polls(p) ==
  /\ pc[p] = "awaitSessionStatus" /\ tool[p] = "check-session-status"
  /\ \E st \in RemoteStatuses, r \in {NoPayload} \cup SubmitPayloads(sessionUuid[p]) :
       /\ hist' = [hist EXCEPT ![p] = Logged(@, st, r)]
       /\ IF st \in {"in progress", "processing", "pending"} /\ hist[p].nResp < 2 THEN
            /\ net' = [net EXCEPT ![p].statusQueries = @ + 1]
            /\ UNCHANGED <<pc, outcome>>
          ELSE
            /\ Finish(p, Ok(RenderSessionStatus(format[p], st, r, sessionUuid[p])))
            /\ net' = net
  /\ UNCHANGED <<apiKey, shutdown, probability, verdict, tool, format, params, uuid, status, attempts, analysisResult, sessionUuid, faceIndex>>

\* The answer to GET /api/{sessionUuid}/status, then the handler to its end.
SessionStatusResponse(p) ==
  /\ pc[p] = "awaitSessionStatus" /\ tool[p] = "check-session-status"
  /\ \/ \E http \in HttpFailures :
          /\ Finish(p, CallToolCatch("check-session-status",
               CatchCheckSessionStatus(AxiosError(http), sessionUuid[p])))
          /\ hist' = [hist EXCEPT ![p].failed = "status", ![p].http = http]
     \/ \E st \in RemoteStatuses, r \in {NoPayload} \cup SubmitPayloads(sessionUuid[p]) :
          /\ hist' = [hist EXCEPT ![p] = Logged(@, st, r)]
          /\ Finish(p, Ok(RenderSessionStatus(format[p], st, r, sessionUuid[p])))
  /\ UNCHANGED <<apiKey, shutdown, probability, verdict, tool, format, params, uuid, status, attempts, analysisResult, sessionUuid, faceIndex, net>>

\* The caller has the response; the invocation's variables are gone.
Deliver(p) ==
  /\ pc[p] = "returned"
  /\ tool' = [tool EXCEPT ![p] = "none"]
  /\ pc' = [pc EXCEPT ![p] = "idle"]
  /\ format' = [format EXCEPT ![p] = "text"]
  /\ params' = [params EXCEPT ![p] = NoParams]
  /\ uuid' = [uuid EXCEPT ![p] = Undefined]
  /\ status' = [status EXCEPT ![p] = Undefined]
  /\ attempts' = [attempts EXCEPT ![p] = 0]
  /\ analysisResult' = [analysisResult EXCEPT ![p] = NoPayload]
  /\ sessionUuid' = [sessionUuid EXCEPT ![p] = Undefined]
  /\ faceIndex' = [faceIndex EXCEPT ![p] = NoIndex]
  /\ outcome' = [outcome EXCEPT ![p] = NoOutcome]
  /\ net' = [net EXCEPT ![p] = NoNet]
  /\ hist' = [hist EXCEPT ![p] = NoHist]
  /\ UNCHANGED <<apiKey, shutdown, probability, verdict>>

Next ==
  \E p \in Procs :
    \/ Quiescent /\ FirstFree(p) /\ CallAnalyzeImage(p)
    \/ UploadResponseImage(p)
    \/ WakeImage(p)
    \/ StatusResponseImage(p)
    \/ ResultResponseImage(p)
    \/ Quiescent /\ FirstFree(p) /\ CallAnalyzeImageUrl(p)
    \/ DownloadResponseUrl(p)
    \/ UploadResponseUrl(p)
    \/ WakeUrl(p)
    \/ StatusResponseUrl(p)
    \/ ResultResponseUrl(p)
    \/ Quiescent /\ FirstFree(p) /\ CallGetFaceDetails(p)
    \/ FaceDetailsResponse(p)
    \/ Quiescent /\ FirstFree(p) /\ CallCheckSessionStatus(p)
    \/ SessionStatusResponse(p)
    \/ Deliver(p)

Spec == Init /\ [][Next]_vars

\* ------------------------------------------------------------ the API key
\* process.env.PROOFLY_API_KEY: unset, or the key.
ApiKeys == {Undefined, "sk-key"}

\* The server as started with or without PROOFLY_API_KEY in its environment.
InitKey ==
  /\ tool = [p \in Procs |-> "none"]
  /\ pc = [p \in Procs |-> "idle"]
  /\ format = [p \in Procs |-> "text"]
  /\ params = [p \in Procs |-> NoParams]
  /\ uuid = [p \in Procs |-> Undefined]
  /\ status = [p \in Procs |-> Undefined]
  /\ attempts = [p \in Procs |-> 0]
  /\ analysisResult = [p \in Procs |-> NoPayload]
  /\ sessionUuid = [p \in Procs |-> Undefined]
  /\ faceIndex = [p \in Procs |-> NoIndex]
  /\ outcome = [p \in Procs |-> NoOutcome]
  /\ net = [p \in Procs |-> NoNet]
  /\ hist = [p \in Procs |-> NoHist]
  /\ apiKey \in ApiKeys
  /\ shutdown = "running"
  /\ probability = NoScore
  /\ verdict = "none"

SpecKey == InitKey /\ [][Next]_vars

\* The header names of the upload request: headers: { ...formData.getHeaders() }.
UploadHeaders(key) == {"content-type"}
\* The header names of axios.get(url): no config argument is passed.
GetHeaders(key) == {}
\* Headers that would carry an API key.
KeyHeaders == {"authorization", "x-api-key"}

\* Of the requests n of an invocation, those sent to the analysis service and
\* those among them that carried the key.
ServiceRequests(n) == n.uploads + n.statusQueries + n.fetches
KeyedRequests(n, key) ==
  (IF UploadHeaders(key) \cap KeyHeaders # {} THEN n.uploads ELSE 0)
    + (IF GetHeaders(key) \cap KeyHeaders # {} THEN n.statusQueries + n.fetches ELSE 0)

\* --------------------------------------------- several invocations at once
\* The requests and the remote service while submit lifecycles overlap: valid
\* arguments, text format, session ids handed out in turn (so that overlapping
\* lifecycles have different ids, or the same id), and a service that answers
\* 'processing' at most
\* ConcPolls times per session and then 'done' (with or without the result
\* embedded) or 'error'.
ConcEnv ==
  \A p \in Procs :
    /\ format[p] = "text"
    /\ tool[p] = "analyze-image" =>
         params[p].imageBase64 = [t |-> "string", prefix |-> "", body |-> "QUJD"]
           /\ params[p].filename # Undefined
    /\ tool[p] = "analyze" => params[p].imageUrl # Undefined
    /\ uuid[p] \in {Undefined, IF p % 2 = 1 THEN "abc" ELSE "xyz"}
    /\ hist[p].seen \subseteq {"processing", "done", "error"}
    /\ hist[p].lastStatus = "processing" => hist[p].nResp <= ConcPolls
    /\ hist[p].embedded \in {NoPayload, Payload(uuid[p], "done", TRUE, 1)}
    /\ hist[p].embedded # NoPayload => hist[p].lastStatus = "done"
    /\ hist[p].fetched \in {NoPayload, Payload(uuid[p], "done", TRUE, 1)}

\* The submit handlers with no limit on the invocations in progress.
NextConc ==
  \E p \in Procs :
    \/ FirstFree(p) /\ CallAnalyzeImage(p) /\ ConcEnv'
    \/ UploadResponseImage(p) /\ ConcEnv'
    \/ WakeImage(p) /\ ConcEnv'
    \/ StatusResponseImage(p) /\ ConcEnv'
    \/ ResultResponseImage(p) /\ ConcEnv'
    \/ FirstFree(p) /\ CallAnalyzeImageUrl(p) /\ ConcEnv'
    \/ DownloadResponseUrl(p) /\ ConcEnv'
    \/ UploadResponseUrl(p) /\ ConcEnv'
    \/ WakeUrl(p) /\ ConcEnv'
    \/ StatusResponseUrl(p) /\ ConcEnv'
    \/ ResultResponseUrl(p) /\ ConcEnv'
    \/ Deliver(p)

SpecConc == Init /\ [][NextConc]_vars

\* ------------------------------------------------ the two submit paths
\* Statuses the remote service reports while the two paths are compared.
PairStatuses == {"processing", "in_progress", "done", "no faces found", "error"}

\* One analyze-image invocation (slot 1) and one analyze invocation (slot 2)
\* against the same session: valid arguments, at most ConcPolls 'processing'
\* answers, results with one face.
PairEnv ==
  \A p \in Procs :
    /\ tool[p] \in {"none", IF p = 1 THEN "analyze-image" ELSE IF p = 2 THEN "analyze" ELSE "none"}
    /\ tool[p] = "analyze-image" =>
         params[p].imageBase64 = [t |-> "string", prefix |-> "", body |-> "QUJD"]
           /\ params[p].filename # Undefined
    /\ tool[p] = "analyze" => params[p].imageUrl # Undefined
    /\ uuid[p] \in {Undefined, "abc"}
    /\ hist[p].seen \subseteq PairStatuses
    /\ hist[p].lastStatus = "processing" => hist[p].nResp <= ConcPolls
    /\ hist[p].lastResult \in {NoPayload, Payload("abc", "done", TRUE, 1)}
    /\ hist[p].fetched \in {NoPayload, Payload("abc", "done", TRUE, 1)}

NextPair ==
  \E p \in Procs :
    \/ CallAnalyzeImage(p) /\ PairEnv'
    \/ UploadResponseImage(p) /\ PairEnv'
    \/ WakeImage(p) /\ PairEnv'
    \/ StatusResponseImage(p) /\ PairEnv'
    \/ ResultResponseImage(p) /\ PairEnv'
    \/ CallAnalyzeImageUrl(p) /\ PairEnv'
    \/ DownloadResponseUrl(p) /\ PairEnv'
    \/ UploadResponseUrl(p) /\ PairEnv'
    \/ WakeUrl(p) /\ PairEnv'
    \/ StatusResponseUrl(p) /\ PairEnv'
    \/ ResultResponseUrl(p) /\ PairEnv'
    \/ Deliver(p)

SpecPair == Init /\ [][NextPair]_vars

\* ------------------------------------------------------------- progress
\* One submit lifecycle at a time against a service that answers 'processing',
\* 'done' or 'error' for as long as it likes, or not at all (the request is
\* rejected).
LiveEnv ==
  \A p \in Procs :
    /\ format[p] = "text"
    /\ tool[p] = "analyze-image" =>
         params[p].imageBase64 = [t |-> "string", prefix |-> "", body |-> "QUJD"]
           /\ params[p].filename # Undefined
    /\ tool[p] = "analyze" => params[p].imageUrl # Undefined
    /\ uuid[p] \in {Undefined, "abc"}
    /\ hist[p].seen \subseteq {"processing", "done", "error"}
    /\ hist[p].lastResult = NoPayload
    /\ hist[p].fetched \in {NoPayload, Payload("abc", "done", TRUE, 1)}

NextLive ==
  \E p \in Procs :
    \/ Quiescent /\ FirstFree(p) /\ CallAnalyzeImage(p) /\ LiveEnv'
    \/ UploadResponseImage(p) /\ LiveEnv'
    \/ WakeImage(p) /\ LiveEnv'
    \/ StatusResponseImage(p) /\ LiveEnv'
    \/ ResultResponseImage(p) /\ LiveEnv'
    \/ Quiescent /\ FirstFree(p) /\ CallAnalyzeImageUrl(p) /\ LiveEnv'
    \/ DownloadResponseUrl(p) /\ LiveEnv'
    \/ UploadResponseUrl(p) /\ LiveEnv'
    \/ WakeUrl(p) /\ LiveEnv'
    \/ StatusResponseUrl(p) /\ LiveEnv'
    \/ ResultResponseUrl(p) /\ LiveEnv'
    \/ Deliver(p)

\* Every request is answered or rejected and every timer fires: an awaited
\* promise settles.
Settles ==
  \A p \in Procs :
    /\ WF_vars(UploadResponseImage(p) /\ LiveEnv')
    /\ WF_vars(WakeImage(p) /\ LiveEnv')
    /\ WF_vars(StatusResponseImage(p) /\ LiveEnv')
    /\ WF_vars(ResultResponseImage(p) /\ LiveEnv')
    /\ WF_vars(DownloadResponseUrl(p) /\ LiveEnv')
    /\ WF_vars(UploadResponseUrl(p) /\ LiveEnv')
    /\ WF_vars(WakeUrl(p) /\ LiveEnv')
    /\ WF_vars(StatusResponseUrl(p) /\ LiveEnv')
    /\ WF_vars(ResultResponseUrl(p) /\ LiveEnv')

SpecLive == Init /\ [][NextLive]_vars /\ Settles

\* ------------------------------------------- the rendering of the verdicts
\* The text rendering at its first getVerdict call, for any score of the face.
InitVerdict ==
  /\ tool = [p \in Procs |-> "none"]
  /\ pc = [p \in Procs |-> "idle"]
  /\ format = [p \in Procs |-> "text"]
  /\ params = [p \in Procs |-> NoParams]
  /\ uuid = [p \in Procs |-> Undefined]
  /\ status = [p \in Procs |-> Undefined]
  /\ attempts = [p \in Procs |-> 0]
  /\ analysisResult = [p \in Procs |-> NoPayload]
  /\ sessionUuid = [p \in Procs |-> Undefined]
  /\ faceIndex = [p \in Procs |-> NoIndex]
  /\ outcome = [p \in Procs |-> NoOutcome]
  /\ net = [p \in Procs |-> NoNet]
  /\ hist = [p \in Procs |-> NoHist]
  /\ apiKey = Undefined
  /\ shutdown = "running"
  /\ probability \in Scores
  /\ verdict = "none"

NextVerdict == ReturnVerdict \/ CallVerdict

SpecVerdict == InitVerdict /\ [][NextVerdict]_vars

\* ------------------------------------------------------ setupSignalHandlers
\* process.on(signal, ...) up to await this.mcpServer.close(): the handlers in
\* progress are not told and keep running while the close is awaited.
Signal ==
  /\ shutdown = "running"
  /\ shutdown' = "closing"
  /\ UNCHANGED <<tool, pc, format, params, uuid, status, attempts, analysisResult,
                 sessionUuid, faceIndex, outcome, net, hist, apiKey, probability, verdict>>

\* finally { process.exit(0); }
Exit ==
  /\ shutdown = "closing"
  /\ shutdown' = "exited"
  /\ UNCHANGED <<tool, pc, format, params, uuid, status, attempts, analysisResult,
                 sessionUuid, faceIndex, outcome, net, hist, apiKey, probability, verdict>>

\* The process has not exited: its handlers and timers still run.
Alive == shutdown # "exited"
\* No signal has arrived: the server still takes requests.
Running == shutdown = "running"

\* The submit handlers of a server that may receive SIGINT, SIGTERM or SIGQUIT.
NextSignal ==
  \/ Signal
  \/ Exit
  \/ \E p \in Procs :
       \/ Running /\ FirstFree(p) /\ CallAnalyzeImage(p) /\ ConcEnv'
       \/ Alive /\ UploadResponseImage(p) /\ ConcEnv'
       \/ Alive /\ WakeImage(p) /\ ConcEnv'
       \/ Alive /\ StatusResponseImage(p) /\ ConcEnv'
       \/ Alive /\ ResultResponseImage(p) /\ ConcEnv'
       \/ Running /\ FirstFree(p) /\ CallAnalyzeImageUrl(p) /\ ConcEnv'
       \/ Alive /\ DownloadResponseUrl(p) /\ ConcEnv'
       \/ Alive /\ UploadResponseUrl(p) /\ ConcEnv'
       \/ Alive /\ WakeUrl(p) /\ ConcEnv'
       \/ Alive /\ StatusResponseUrl(p) /\ ConcEnv'
       \/ Alive /\ ResultResponseUrl(p) /\ ConcEnv'
       \/ Alive /\ Deliver(p)

SpecSignal == Init /\ [][NextSignal]_vars

\* ------------------------------------------------------------- properties
Submit(p) == tool[p] \in {"analyze-image", "analyze"}
Returned(p) == pc[p] = "returned"
\* The lifecycle has a session and every request so far was answered.
Answered(p) == uuid[p] # Undefined /\ hist[p].failed = "no"
Resolved(p) == Returned(p) /\ outcome[p].kind = "ok"
Failed(p) == Returned(p) /\ outcome[p].kind = "error"

\* The statuses on which the handlers keep polling, as the source spells them.
PollingStatuses == {"in progress", "processing", "pending"}
\* The three polling statuses as the specification spells them.
SpecPollingStatuses == {"pending", "processing", "in_progress"}
DoneStatuses == {"done", "completed"}
NoFacesStatuses == {"no_faces_found", "no faces found"}

PollTimeoutError(out) ==
  /\ out.kind = "error"
  /\ out.msg.text = "Maximum retry attempts reached for status check."
AnalysisIncompleteError(out) ==
  /\ out.kind = "error"
  /\ out.msg.text = "Analysis did not complete successfully. Last status: "

\* What the caller gets when submit resolves with result r in format fmt.
Rendering(fmt, r) == IF fmt = "json" THEN r ELSE formatResultsToHumanReadable(r)
ResolvedWith(p, r) ==
  /\ Resolved(p)
  /\ analysisResult[p] = r
  /\ outcome[p].content.fmt = format[p]
  /\ outcome[p].content.body = Rendering(format[p], r)

\* C1: when every status response of a submit carries a polling status, the
\* lifecycle never issues more than maxRetries status queries nor any result
\* fetch, and it ends in the poll-timeout error after exactly maxRetries
\* status queries.
C1_PollTimeoutAfterMaxRetries ==
  \A p \in Procs :
    (Submit(p) /\ Answered(p) /\ hist[p].seen \subseteq PollingStatuses) =>
      /\ net[p].statusQueries <= maxRetries
      /\ net[p].fetches = 0
      /\ Returned(p) =>
           /\ PollTimeoutError(outcome[p])
           /\ net[p].statusQueries = maxRetries
           /\ hist[p].nResp = maxRetries

C1_Witness ==
  \E p \in Procs :
    /\ Submit(p) /\ Answered(p) /\ Returned(p)
    /\ hist[p].seen = PollingStatuses
    /\ PollTimeoutError(outcome[p])
    /\ net[p].statusQueries = maxRetries

\* C2 as stated: whenever the status sequence of a submit reaches a status that
\* ends polling within maxRetries responses, submit resolves with a result.
C2_Original ==
  \A p \in Procs :
    (/\ Submit(p) /\ Answered(p) /\ Returned(p)
     /\ hist[p].nResp \in 1..maxRetries
     /\ hist[p].lastStatus \notin PollingStatuses) => Resolved(p)

\* C2 as amended: when the first status that ends polling arrives within
\* maxRetries responses (the maxRetries-th included), every request is
\* answered, and that status is done, completed or a no-faces spelling, or an
\* embedded result was captured, submit resolves with a result; with any other
\* status and nothing captured it fails.
C2_ResolvesOnTerminalStatus ==
  \A p \in Procs :
    (/\ Submit(p) /\ Answered(p) /\ Returned(p)
     /\ hist[p].nResp \in 1..maxRetries
     /\ hist[p].lastStatus \notin PollingStatuses) =>
      IF \/ hist[p].lastStatus \in DoneStatuses \cup NoFacesStatuses
         \/ hist[p].embedded # NoPayload
        THEN Resolved(p) /\ analysisResult[p] # NoPayload
        ELSE Failed(p)

C2_Witness ==
  \E p \in Procs :
    /\ Submit(p) /\ Answered(p) /\ Resolved(p)
    /\ hist[p].nResp = maxRetries
    /\ hist[p].lastStatus = "done"

\* C3 as stated: while the last observed status is pending, processing or
\* in_progress and attempts is below the maximum, the lifecycle stays in the
\* poll loop, sleeping or querying.
C3_Original ==
  \A p \in Procs :
    (/\ Submit(p) /\ Answered(p) /\ hist[p].nResp > 0
     /\ status[p] \in SpecPollingStatuses
     /\ attempts[p] < maxRetries) => pc[p] \in {"sleep", "awaitStatus"}

\* C3 as amended: while the last observed status is pending, processing or
\* "in progress" (spelled with a space) and attempts is below the maximum, the
\* lifecycle stays in the poll loop: it has set one more sleep than it has
\* issued status queries, or it has issued the query that follows that sleep.
C3_PollingContinues ==
  \A p \in Procs :
    (/\ Submit(p) /\ Answered(p) /\ hist[p].nResp > 0
     /\ status[p] \in PollingStatuses
     /\ attempts[p] < maxRetries) =>
      \/ /\ pc[p] = "sleep"
         /\ net[p].sleeps = hist[p].nResp + 1
         /\ net[p].statusQueries = hist[p].nResp
      \/ /\ pc[p] = "awaitStatus"
         /\ net[p].sleeps = hist[p].nResp + 1
         /\ net[p].statusQueries = hist[p].nResp + 1

C3_Witness ==
  \E p \in Procs :
    /\ Submit(p) /\ Answered(p)
    /\ hist[p].seen = PollingStatuses
    /\ status[p] = "in progress" /\ hist[p].lastStatus = "in progress"
    /\ attempts[p] = maxRetries - 1
    /\ pc[p] = "sleep"

\* Statuses that are neither polling statuses (in either spelling) nor named
\* as terminal by the handlers.
UnrecognizedStatuses ==
  RemoteStatuses \ (PollingStatuses \cup SpecPollingStatuses \cup DoneStatuses \cup NoFacesStatuses)

\* C4 as stated: an unrecognized status is treated as non-terminal, so the
\* lifecycle keeps polling on it.
C4_Original ==
  \A p \in Procs :
    (/\ Submit(p) /\ Answered(p) /\ hist[p].nResp > 0
     /\ status[p] \in UnrecognizedStatuses
     /\ attempts[p] < maxRetries) => pc[p] \in {"sleep", "awaitStatus"}

\* C4 as amended: an unrecognized status ends polling: the response that
\* carries it is the last one queried, no sleep follows it, and submit ends at
\* once, with the analysis-incomplete error when no embedded result was
\* captured and with the captured result otherwise.
C4_UnrecognizedStatusStopsPolling ==
  \A p \in Procs :
    (/\ Submit(p) /\ Answered(p) /\ hist[p].nResp > 0
     /\ status[p] \in UnrecognizedStatuses) =>
      /\ Returned(p)
      /\ net[p].statusQueries = hist[p].nResp
      /\ net[p].sleeps = hist[p].nResp
      /\ net[p].fetches = 0
      /\ IF hist[p].embedded = NoPayload
           THEN AnalysisIncompleteError(outcome[p])
           ELSE ResolvedWith(p, hist[p].embedded)

C4_Witness ==
  \E p \in Procs :
    /\ Submit(p) /\ Answered(p)
    /\ status[p] = "error" /\ hist[p].log = <<"pending", "error">>
    /\ attempts[p] = 2
    /\ AnalysisIncompleteError(outcome[p])

\* The scenario of C5: the upload returned uuid abc and the status responses
\* were processing, processing, done, the third with an embedded result.
ScenarioC5(p) ==
  /\ Submit(p) /\ Answered(p) /\ Returned(p)
  /\ uuid[p] = "abc"
  /\ hist[p].log = <<"processing", "processing", "done">>
  /\ hist[p].nResp = 3
  /\ hist[p].lastResult # NoPayload

\* C5 as stated: in the scenario submit has made exactly 2 status calls.
C5_Original ==
  \A p \in Procs : ScenarioC5(p) => net[p].statusQueries = 2

\* C5 as amended: in the scenario submit has made exactly 3 status calls after
\* the one upload, one for each status response, each after one sleep, and no
\* result fetch; it resolves with the embedded result.
C5_ThreeStatusCalls ==
  \A p \in Procs :
    ScenarioC5(p) =>
      /\ net[p].uploads = 1
      /\ net[p].statusQueries = 3
      /\ net[p].sleeps = 3
      /\ attempts[p] = 3
      /\ net[p].fetches = 0
      /\ ResolvedWith(p, hist[p].lastResult)

C5_Witness == \E p \in Procs : ScenarioC5(p) /\ Resolved(p)

\* C6: when the status response that reports done or completed carries an
\* embedded result, submit resolves with exactly that result and issues no
\* full-result fetch.
C6_EmbeddedResultReturned ==
  \A p \in Procs :
    (/\ Submit(p) /\ Answered(p) /\ hist[p].nResp > 0
     /\ hist[p].lastStatus \in DoneStatuses
     /\ hist[p].lastResult # NoPayload) =>
      /\ ResolvedWith(p, hist[p].lastResult)
      /\ net[p].fetches = 0
      /\ hist[p].fetched = NoPayload

C6_Witness ==
  \E p \in Procs :
    /\ Submit(p) /\ Answered(p) /\ Resolved(p)
    /\ hist[p].lastStatus = "completed"
    /\ hist[p].lastResult = Payload(uuid[p], "done", TRUE, 1)
    /\ hist[p].nResp > 1
    /\ analysisResult[p] = hist[p].lastResult

\* Polling ended on done or completed with no embedded result captured.
DoneWithoutEmbedded(p) ==
  /\ hist[p].nResp > 0
  /\ hist[p].lastStatus \in DoneStatuses
  /\ hist[p].embedded = NoPayload

\* C7: a submit lifecycle issues the full-result fetch exactly once, for its
\* own session id, when polling ended on done or completed with no embedded
\* result captured, and never otherwise; it then resolves with the fetched
\* payload (and fails only if the fetch itself fails).
C7_OneFetchWhenDoneWithoutEmbedded ==
  \A p \in Procs :
    Submit(p) =>
      /\ net[p].fetches = IF DoneWithoutEmbedded(p) THEN 1 ELSE 0
      /\ net[p].fetches = 1 => uuid[p] \in net[p].ids
      /\ (DoneWithoutEmbedded(p) /\ Returned(p)) =>
           IF hist[p].fetched # NoPayload
             THEN ResolvedWith(p, hist[p].fetched)
             ELSE Failed(p) /\ hist[p].failed = "result"

C7_Witness ==
  \E p \in Procs :
    /\ Submit(p) /\ DoneWithoutEmbedded(p) /\ Resolved(p)
    /\ net[p].fetches = 1
    /\ hist[p].nResp > 1
    /\ analysisResult[p] = hist[p].fetched /\ hist[p].fetched # NoPayload

\* C8: when polling ends on no_faces_found or "no faces found" with no
\* embedded result captured, submit resolves (no error) with the synthesized
\* result: status no_faces_found, message "No faces detected in the image.",
\* no faces; and it issues no full-result fetch.
C8_NoFacesSynthesized ==
  \A p \in Procs :
    (/\ Submit(p) /\ Answered(p) /\ hist[p].nResp > 0
     /\ hist[p].lastStatus \in NoFacesStatuses
     /\ hist[p].embedded = NoPayload) =>
      /\ Resolved(p)
      /\ analysisResult[p].status = "no_faces_found"
      /\ analysisResult[p].hasFaces /\ analysisResult[p].faces = <<>>
      /\ analysisResult[p].message = "No faces detected in the image."
      /\ ResolvedWith(p, analysisResult[p])
      /\ net[p].fetches = 0

C8_Witness ==
  \E p \in Procs :
    /\ Submit(p) /\ Answered(p) /\ Resolved(p)
    /\ hist[p].lastStatus = "no faces found"
    /\ hist[p].embedded = NoPayload
    /\ analysisResult[p].status = "no_faces_found"

\* C9: when polling stops on a status that is not done, completed or a
\* no-faces spelling and no embedded result was captured, submit fails with
\* the analysis-incomplete error carrying that status, returns no result and
\* issues no full-result fetch.
C9_IncompleteOnOtherStatus ==
  \A p \in Procs :
    (/\ Submit(p) /\ Answered(p) /\ hist[p].nResp > 0
     /\ hist[p].lastStatus \notin PollingStatuses \cup DoneStatuses \cup NoFacesStatuses
     /\ hist[p].embedded = NoPayload) =>
      /\ Failed(p)
      /\ AnalysisIncompleteError(outcome[p])
      /\ outcome[p].msg.status = hist[p].lastStatus
      /\ analysisResult[p] = NoPayload
      /\ net[p].fetches = 0

C9_Witness ==
  \E p \in Procs :
    /\ Submit(p) /\ Answered(p) /\ Failed(p)
    /\ hist[p].lastStatus = "error" /\ hist[p].nResp > 1
    /\ hist[p].embedded = NoPayload
    /\ outcome[p].msg.status = "error"

\* C10 as stated: when the face index lies outside [0, faces.length) of the
\* freshly fetched result (faces absent counting as length 0), the caller of
\* get-face-details receives a NotFound error.
C10_NotFoundForIndexOutOfRange ==
  \A p \in Procs :
    (/\ tool[p] = "get-face-details" /\ Returned(p)
     /\ hist[p].fetched # NoPayload
     /\ \/ ~hist[p].fetched.hasFaces
        \/ faceIndex[p].v >= Len(hist[p].fetched.faces)) =>
      outcome[p].kind = "error" /\ outcome[p].code = "NotFound"

\* The face index of get-face-details is an integer within the faces of the
\* payload GET /api/{sessionUuid} returned.
IndexInRange(p) ==
  /\ tool[p] = "get-face-details"
  /\ hist[p].fetched # NoPayload /\ hist[p].fetched.hasFaces
  /\ faceIndex[p].t = "number" /\ ~faceIndex[p].frac
  /\ faceIndex[p].v >= 0 /\ faceIndex[p].v < Len(hist[p].fetched.faces)

\* C11: for an integer index within the faces of the result, get-face-details
\* has issued exactly one full-result fetch, for the given session id, and
\* returns the face at that index of the payload just fetched, unchanged.
C11_FaceAtIndexReturned ==
  \A p \in Procs :
    IndexInRange(p) =>
      /\ Resolved(p)
      /\ outcome[p].content.body = hist[p].fetched.faces[faceIndex[p].v + 1]
      /\ outcome[p].content.fmt = format[p]
      /\ net[p].fetches = 1
      /\ net[p].ids = {sessionUuid[p]}
      /\ net[p].uploads = 0 /\ net[p].statusQueries = 0 /\ net[p].sleeps = 0

C11_Witness ==
  \E p \in Procs :
    /\ IndexInRange(p) /\ Resolved(p)
    /\ faceIndex[p].v = 1
    /\ Len(hist[p].fetched.faces) = 2
    /\ outcome[p].content.body = Face(2)

SessionQuery(p) == tool[p] \in {"check-session-status", "get-face-details"}

\* C12: when the session query of check-session-status or get-face-details
\* fails with HTTP 404, the caller receives a NotFound error whose message
\* carries the requested session id; when it fails in any other way (another
\* HTTP status, no response) the caller receives an error that is not NotFound.
C12_NotFoundOn404 ==
  \A p \in Procs :
    (SessionQuery(p) /\ hist[p].failed # "no") =>
      /\ Failed(p)
      /\ IF hist[p].http = "404"
           THEN outcome[p].code = "NotFound" /\ outcome[p].msg.id = sessionUuid[p]
           ELSE outcome[p].code # "NotFound"

C12_Witness ==
  \E p \in Procs :
    /\ tool[p] = "check-session-status" /\ Failed(p)
    /\ hist[p].failed = "status" /\ hist[p].http = "404"
    /\ outcome[p].code = "NotFound" /\ outcome[p].msg.id = "abc"

\* C13: an invocation of check-session-status issues one status query and no
\* other request and sets no timer; whatever status the one response carries
\* (a polling status included), the invocation ends with it.
C13_SingleStatusQuery ==
  \A p \in Procs :
    tool[p] = "check-session-status" =>
      /\ net[p].statusQueries = IF sessionUuid[p] = Undefined THEN 0 ELSE 1
      /\ net[p].sleeps = 0 /\ net[p].fetches = 0
      /\ net[p].uploads = 0 /\ net[p].downloads = 0
      /\ hist[p].nResp <= 1
      /\ hist[p].nResp = 1 =>
           /\ Resolved(p)
           /\ outcome[p].content = RenderSessionStatus(format[p], hist[p].lastStatus,
                                     hist[p].lastResult, sessionUuid[p])

C13_Witness ==
  \E p \in Procs :
    /\ tool[p] = "check-session-status" /\ Resolved(p)
    /\ hist[p].lastStatus = "processing"
    /\ net[p].statusQueries = 1

\* ---------------------------------------------------------------- C14
\* The base64 text of the argument, after the optional data: prefix, is empty:
\* the image payload has no bytes.
EmptyImagePayload(imageBase64) == imageBase64.t = "string" /\ imageBase64.body = ""

\* A required input of the invocation is missing or malformed.
InvalidInput(p) ==
  \/ /\ tool[p] = "analyze-image"
     /\ \/ params[p].imageBase64.t = "undefined"
        \/ params[p].filename = Undefined
        \/ EmptyImagePayload(params[p].imageBase64)
  \/ tool[p] = "analyze" /\ params[p].imageUrl = Undefined
  \/ tool[p] = "check-session-status" /\ sessionUuid[p] = Undefined
  \/ /\ tool[p] = "get-face-details"
     /\ \/ sessionUuid[p] = Undefined
        \/ faceIndex[p].t # "number"
        \/ faceIndex[p].v < 0

\* C14: an invocation with a missing or malformed required input (no image
\* bytes or filename, empty image payload, no URL, no session id, missing,
\* non-numeric or negative face index) has failed with the validation error
\* (InvalidParams) and has issued no request at all.
C14_ValidationBeforeNetwork ==
  \A p \in Procs :
    InvalidInput(p) =>
      /\ Returned(p)
      /\ outcome[p].kind = "error"
      /\ outcome[p].code = "InvalidParams"
      /\ net[p] = NoNet

\* ---------------------------------------------------------------- C15
\* The upload was answered without a session id, or was not answered.
UploadFailed(p) == hist[p].upload = "noid" \/ hist[p].failed = "upload"

\* C15: a submit lifecycle whose upload response lacks a session id, or whose
\* upload request fails, has ended with the error of the upload (the missing
\* id or the rejected request, surfaced as ServerError) and has issued no
\* status query, no sleep and no result fetch.
C15_UploadFailureEndsLifecycle ==
  \A p \in Procs :
    (Submit(p) /\ UploadFailed(p)) =>
      /\ Failed(p)
      /\ outcome[p].code = "ServerError"
      /\ outcome[p].msg.text =
           IF hist[p].failed = "upload" THEN "Request failed"
           ELSE "No session UUID returned from Proofly API after upload"
      /\ uuid[p] = Undefined
      /\ net[p].uploads = 1
      /\ net[p].statusQueries = 0 /\ net[p].sleeps = 0 /\ net[p].fetches = 0

C15_Witness ==
  \E p \in Procs :
    /\ tool[p] = "analyze-image" /\ Failed(p)
    /\ hist[p].upload = "noid" /\ net[p].uploads = 1

\* ---------------------------------------------------------------- C16
\* A status query or the result fetch of the lifecycle was rejected.
PollOrFetchFailed(p) == hist[p].failed \in {"status", "result"}

\* The lifecycle ended with the error of the rejected request, and that request
\* was its last: no query was repeated and nothing followed it.
SurfacedAtOnce(p) ==
  /\ Failed(p)
  /\ outcome[p].code = "ServerError"
  /\ outcome[p].msg.text = "Request failed"
  /\ IF hist[p].failed = "status"
       THEN net[p].statusQueries = hist[p].nResp + 1 /\ net[p].fetches = 0
       ELSE net[p].statusQueries = hist[p].nResp /\ net[p].fetches = 1
  /\ net[p].sleeps = net[p].statusQueries

\* A lifecycle that has returned takes no step but its delivery to the caller.
Terminal(p) ==
  Returned(p) =>
    \/ pc'[p] = "idle"
    \/ pc'[p] = "returned" /\ net'[p] = net[p] /\ outcome'[p] = outcome[p]

\* C16: a rejected status query or result fetch of a submit lifecycle ends the
\* lifecycle at once with an error returned to the caller (it is not retried
\* and not swallowed), and a lifecycle that has resolved or failed issues no
\* further request and keeps its outcome.
C16_FailuresSurfacedAndTerminal ==
  /\ [](\A p \in Procs : (Submit(p) /\ PollOrFetchFailed(p)) => SurfacedAtOnce(p))
  /\ [][\A p \in Procs : Submit(p) => Terminal(p)]_vars

C16_Witness ==
  \E p \in Procs :
    /\ tool[p] = "analyze-image" /\ Failed(p)
    /\ hist[p].failed = "status" /\ hist[p].nResp = 2
    /\ net[p].statusQueries = 3

\* ---------------------------------------------------------------- C17
\* Whether the invocation, with the inputs and the responses it had, succeeds
\* ("ok") or fails ("error") when its format option is fmt.  The handlers read
\* format only where they render: an invocation that failed before that point
\* fails the same way under either format.
KindUnder(p, fmt) ==
  IF tool[p] = "get-face-details" /\ hist[p].fetched # NoPayload THEN
    FaceDetails(fmt, hist[p].fetched, faceIndex[p], sessionUuid[p]).kind
  ELSE IF outcome[p].kind = "error" THEN "error"
  ELSE IF tool[p] = "analyze-image" THEN Ok(RenderImage(fmt, analysisResult[p])).kind
  ELSE IF tool[p] = "analyze" THEN Ok(RenderUrl(fmt, analysisResult[p])).kind
  ELSE Ok(RenderSessionStatus(fmt, hist[p].lastStatus, hist[p].lastResult,
                              sessionUuid[p])).kind

\* C17: for the inputs and remote responses of any invocation that has
\* returned, the invocation succeeds under format text exactly if it succeeds
\* under format json (format changes the rendering, not the outcome).
C17_FormatOnlyRendering ==
  \A p \in Procs :
    Returned(p) =>
      /\ KindUnder(p, format[p]) = outcome[p].kind
      /\ KindUnder(p, "text") = KindUnder(p, "json")

\* ---------------------------------------------------------------- C18
\* The outcome of a returned submit lifecycle as its own responses determine
\* it.
OwnOutcome(p) ==
  LET h == hist[p] IN
  IF h.failed # "no" THEN Failed(p) /\ outcome[p].msg.text = "Request failed"
  ELSE IF h.upload = "noid" THEN
    Failed(p) /\ outcome[p].msg.text = "No session UUID returned from Proofly API after upload"
  ELSE IF h.upload = "none" THEN Failed(p)
  ELSE IF h.nResp = 0 THEN FALSE
  ELSE IF h.lastStatus \in PollingStatuses THEN PollTimeoutError(outcome[p])
  ELSE IF h.embedded # NoPayload THEN ResolvedWith(p, h.embedded)
  ELSE IF h.lastStatus \in DoneStatuses THEN ResolvedWith(p, h.fetched)
  ELSE IF h.lastStatus \in NoFacesStatuses THEN
    ResolvedWith(p, IF tool[p] = "analyze" THEN NoFacesResultUrl(uuid[p])
                    ELSE NoFacesResultImage(uuid[p]))
  ELSE AnalysisIncompleteError(outcome[p]) /\ outcome[p].msg.status = h.lastStatus

\* Two lifecycles with the same request that got the same responses.
SameRun(p, q) ==
  /\ tool[p] = tool[q] /\ format[p] = format[q] /\ params[p] = params[q]
  /\ hist[p] = hist[q] /\ pc[p] = pc[q]

\* C18: with submit lifecycles interleaved in any way, the attempt counter of
\* each counts its own status queries only, each queries only the session id
\* its own upload returned, each returns the outcome its own responses
\* determine, and two lifecycles that got the same responses are in the same
\* state whatever the other did in between.
C18_ConcurrentLifecyclesIndependent ==
  \A p \in Procs :
    Submit(p) =>
      /\ attempts[p] = net[p].statusQueries
      /\ net[p].sleeps = net[p].statusQueries + (IF pc[p] = "sleep" THEN 1 ELSE 0)
      /\ hist[p].nResp = net[p].statusQueries - (IF pc[p] = "awaitStatus" THEN 1 ELSE 0)
                           - (IF hist[p].failed = "status" THEN 1 ELSE 0)
      /\ net[p].ids \subseteq {uuid[p]} \ {Undefined}
      /\ Returned(p) => OwnOutcome(p)
      /\ \A q \in Procs :
           SameRun(p, q) =>
             /\ attempts[p] = attempts[q] /\ status[p] = status[q]
             /\ analysisResult[p].t = analysisResult[q].t
             /\ outcome[p].kind = outcome[q].kind
             /\ net[p].statusQueries = net[q].statusQueries
             /\ net[p].fetches = net[q].fetches

C18_Witness ==
  \E p, q \in Procs :
    /\ tool[p] = "analyze-image" /\ tool[q] = "analyze"
    /\ uuid[p] = "abc" /\ uuid[q] = "xyz"
    /\ pc[p] = "awaitStatus" /\ attempts[p] = 2 /\ net[p].ids = {"abc"}
    /\ hist[p].log = <<"processing">>
    /\ Resolved(q) /\ attempts[q] = 1 /\ net[q].ids = {"xyz"}
    /\ hist[q].lastStatus = "done" /\ net[q].fetches = 1

\* ---------------------------------------------------------------- C19
\* C19: when an API key is configured, every request an invocation has sent to
\* the analysis service (upload, status query, result fetch) carried the key;
\* when none is configured, no request carried one.
C19_KeyOnEveryRequest ==
  \A p \in Procs :
    KeyedRequests(net[p], apiKey) =
      IF apiKey # Undefined THEN ServiceRequests(net[p]) ELSE 0

\* ---------------------------------------------------------------- C20
\* The lifecycle is in its poll loop: sleeping, or waiting for a status answer.
InPollLoop(p) == Submit(p) /\ pc[p] \in {"sleep", "awaitStatus"}

\* C20: while the process is shutting down, the next step of a submit
\* lifecycle that is in its poll loop issues no request and ends the lifecycle
\* with a cancellation error, and the process does not exit with the lifecycle
\* still in the loop.
C20_ShutdownCancelsPolling ==
  [][\A p \in Procs :
       (/\ InPollLoop(p) /\ shutdown # "running"
        /\ (pc'[p] # pc[p] \/ shutdown' = "exited")) =>
         /\ net'[p] = net[p]
         /\ pc'[p] = "returned"
         /\ outcome'[p].kind = "error"
         /\ outcome'[p].code = "RequestCancelled"]_vars

\* ---------------------------------------------------------------- C21
\* C21: for every score on the grid of hundredths, the verdict returned is
\* 'Likely Real' exactly for scores above 0.8, 'Likely Fake' exactly for
\* scores below 0.2 and 'Uncertain' for the others (0.2 and 0.8 included); for
\* an absent score (undefined or null) it is 'Uncertain (no score)'.
C21_VerdictThresholds ==
  verdict # "none" =>
    IF probability.t = "number" THEN
      /\ verdict = "Likely Real" <=> probability.v > 80
      /\ verdict = "Likely Fake" <=> probability.v < 20
      /\ verdict = "Uncertain" <=> (probability.v >= 20 /\ probability.v <= 80)
    ELSE verdict = "Uncertain (no score)"

C21_Witness ==
  /\ probability = [t |-> "number", v |-> 80]
  /\ verdict = "Uncertain"

\* ---------------------------------------------------------------- C22
\* The calls of a lifecycle to the analysis service so far are in the order
\* upload, status queries, result fetch, and carry its own session id.
OrderedSoFar(p) ==
  /\ net[p].uploads <= 1 /\ net[p].fetches <= 1
  /\ (net[p].statusQueries > 0 \/ net[p].fetches > 0) =>
       /\ net[p].uploads = 1 /\ hist[p].upload = "ok" /\ uuid[p] # Undefined
  /\ net[p].fetches = 1 => hist[p].nResp = net[p].statusQueries
  /\ net[p].ids \subseteq {uuid[p]} \ {Undefined}
  /\ tool[p] = "analyze" => (net[p].uploads <= net[p].downloads /\ net[p].downloads <= 1)

\* A step of the lifecycle keeps the order: no upload after a status query, no
\* status query after the fetch, and the session id, once received, stays.
KeepsOrder(p) ==
  \/ pc'[p] = "idle"
  \/ /\ net[p].statusQueries > 0 => net'[p].uploads = net[p].uploads
     /\ net[p].fetches > 0 => net'[p] = net[p]
     /\ uuid[p] # Undefined => uuid'[p] = uuid[p]

\* C22: in a submit lifecycle the calls to the analysis service are ordered
\* upload, then status queries, then at most one result fetch; every status
\* query and the fetch use the session id its own upload returned; and an
\* invocation starts with no session id (none is carried over).
C22_OrderedCallsOwnId ==
  /\ [](\A p \in Procs :
          /\ Submit(p) => OrderedSoFar(p)
          /\ pc[p] = "idle" => (uuid[p] = Undefined /\ net[p] = NoNet))
  /\ [][\A p \in Procs :
          /\ Submit(p) => KeepsOrder(p)
          /\ (pc[p] = "idle" /\ pc'[p] # "idle") => uuid'[p] = Undefined]_vars

C22_Witness ==
  \E p \in Procs :
    /\ tool[p] = "analyze" /\ Resolved(p)
    /\ net[p].uploads = 1 /\ net[p].statusQueries = 2 /\ net[p].fetches = 1
    /\ net[p].ids = {"xyz"} /\ uuid[p] = "xyz"

\* ---------------------------------------------------------------- C23
\* The lifecycle has left its poll loop.
LeftLoop(p) == hist[p].upload = "ok" /\ pc[p] \in {"awaitResult", "returned"}

\* C23: a submit lifecycle leaves its poll loop only after a status the loop
\* does not poll on, after maxRetries attempts, or on a failed request; and a
\* status response that carries a result together with a polling status
\* (pending, processing, 'in progress') leaves the lifecycle polling.
C23_EmbeddedResultDoesNotEndPolling ==
  \A p \in Procs :
    Submit(p) =>
      /\ LeftLoop(p) =>
           \/ hist[p].nResp > 0 /\ hist[p].lastStatus \notin PollingStatuses
           \/ PollTimeoutError(outcome[p]) /\ attempts[p] = maxRetries
           \/ hist[p].failed # "no"
      /\ (/\ Answered(p) /\ hist[p].nResp > 0
          /\ hist[p].lastStatus \in PollingStatuses
          /\ hist[p].lastResult # NoPayload
          /\ attempts[p] < maxRetries) =>
           /\ pc[p] \in {"sleep", "awaitStatus"}
           /\ analysisResult[p] = hist[p].lastResult

C23_Witness ==
  \E p \in Procs :
    /\ tool[p] = "analyze" /\ Answered(p)
    /\ hist[p].log = <<"processing", "pending">>
    /\ hist[p].lastResult # NoPayload
    /\ pc[p] = "awaitStatus" /\ net[p].statusQueries = 3

\* ---------------------------------------------------------------- C24
\* The by-bytes lifecycle p and the by-URL lifecycle q have their image bytes,
\* the same format, and got the same responses from the analysis service.
SameResponses(p, q) ==
  /\ tool[p] = "analyze-image" /\ tool[q] = "analyze"
  /\ net[p].uploads = 1 /\ net[q].uploads = 1
  /\ format[p] = format[q]
  /\ hist[p] = hist[q]

\* The position of a lifecycle in the protocol.
Phase(p) == IF pc[p] \in {"sleep", "awaitStatus"} THEN "polling" ELSE pc[p]

\* The calls to the analysis service, as counted and addressed.
ServiceCalls(n) == <<n.uploads, n.statusQueries, n.fetches, n.ids>>

\* The same result, or the same failure up to the prefix the catch block of
\* each handler puts in front of the message.
SameOutcome(a, b) ==
  /\ a.kind = b.kind
  /\ a.kind = "ok" => a.content = b.content
  /\ a.kind = "error" =>
       /\ a.code = b.code /\ a.class = b.class
       /\ a.msg.text = b.msg.text /\ a.msg.status = b.msg.status

\* C24: a by-bytes and a by-URL lifecycle that got the same upload response
\* and the same status and result responses are at the same point of the
\* protocol with the same session id and captured result, have issued the
\* same calls to the analysis service once both stand at the same await, and
\* have ended in the same outcome.
C24_BothPathsSameProtocol ==
  \A p, q \in Procs :
    SameResponses(p, q) =>
      /\ Phase(p) = Phase(q)
      /\ uuid[p] = uuid[q] /\ status[p] = status[q]
      /\ analysisResult[p] = analysisResult[q]
      /\ net[p].sleeps = net[q].sleeps
      /\ pc[p] = pc[q] =>
           /\ ServiceCalls(net[p]) = ServiceCalls(net[q])
           /\ attempts[p] = attempts[q]
           /\ SameOutcome(outcome[p], outcome[q])

C24_Witness ==
  \E p, q \in Procs :
    /\ SameResponses(p, q)
    /\ hist[p].log = <<"processing", "no faces found">>
    /\ Resolved(p) /\ Resolved(q)
    /\ net[q].downloads = 1 /\ net[p].downloads = 0

\* ---------------------------------------------------------------- C25
\* The lifecycle has been started and has not ended.
InProgress(p) == Submit(p) /\ ~Returned(p)

\* C25: when every request and every sleep of a submit lifecycle completes,
\* the lifecycle ends, resolved or failed, whatever statuses the service
\* reports and however long it reports 'processing'.
C25_LifecycleEnds ==
  \A p \in Procs : InProgress(p) ~> (Resolved(p) \/ Failed(p))

C25_Witness ==
  \E p \in Procs :
    /\ Submit(p) /\ Failed(p) /\ PollTimeoutError(outcome[p])
    /\ hist[p].seen = {"processing"} /\ attempts[p] = maxRetries

\* ---------------------------------------------------------------- C26
\* C26: in a submit lifecycle attempts stays within 0..maxRetries and equals
\* the number of status queries issued so far; the number of waits of the retry
\* interval equals the number of status queries, plus the one in progress
\* while the lifecycle sleeps; and every status query, the first included, is
\* issued by the step that ends a wait.
C26_AttemptsCountQueries ==
  /\ [](\A p \in Procs :
          Submit(p) =>
            /\ attempts[p] >= 0 /\ attempts[p] <= maxRetries
            /\ attempts[p] = net[p].statusQueries
            /\ net[p].sleeps = net[p].statusQueries + (IF pc[p] = "sleep" THEN 1 ELSE 0))
  /\ [][\A p \in Procs :
          (Submit(p) /\ net'[p].statusQueries # net[p].statusQueries /\ pc'[p] # "idle") =>
            /\ pc[p] = "sleep"
            /\ net'[p].statusQueries = net[p].statusQueries + 1
            /\ net'[p].sleeps = net[p].sleeps]_vars

C26_Witness ==
  \E p \in Procs :
    /\ tool[p] = "analyze" /\ pc[p] = "awaitStatus"
    /\ attempts[p] = maxRetries /\ net[p].sleeps = maxRetries

\* ---------------------------------------------------------------- C27
\* Some status response of the lifecycle carried a result.
HasEmbedded(p) == Submit(p) /\ hist[p].embedded # NoPayload

\* C27: once a status response of a submit lifecycle has carried a result,
\* analysisResult holds the most recent such result, whatever later responses
\* without one say; no result fetch is issued; and when polling stops on a
\* status, whichever it is, the lifecycle resolves with that result: there is
\* no synthesized no-faces result and no analysis-incomplete error.
C27_EmbeddedResultSticky ==
  \A p \in Procs :
    HasEmbedded(p) =>
      /\ analysisResult[p] = hist[p].embedded
      /\ net[p].fetches = 0
      /\ (hist[p].failed = "no" /\ hist[p].lastStatus \notin PollingStatuses) =>
           /\ ResolvedWith(p, hist[p].embedded)
           /\ outcome[p].content = (IF tool[p] = "analyze"
                                      THEN RenderUrl(format[p], hist[p].embedded)
                                      ELSE RenderImage(format[p], hist[p].embedded))
      /\ Failed(p) =>
           /\ ~AnalysisIncompleteError(outcome[p])
           /\ hist[p].failed = "status" \/ PollTimeoutError(outcome[p])

C27_Witness ==
  \E p \in Procs :
    /\ tool[p] = "analyze" /\ Resolved(p)
    /\ hist[p].log = <<"processing", "pending", "error">>
    /\ hist[p].lastResult = NoPayload
    /\ hist[p].embedded = Payload(uuid[p], "done", TRUE, 1)
    /\ analysisResult[p] = hist[p].embedded

====
